---- MODULE Spec2Model ----
(***************************************************************************)
(* State machine of src/app/page.tsx: the Home page component (Root        *)
(* Controller), its credential fetch, the LiveKitRoom session container,   *)
(* SimpleVoiceAssistant's state-change effect and ControlBar's rendering.  *)
(*                                                                         *)
(* React state is modelled at commit time: a setter call with a new value  *)
(* and the re-render it causes are one step, and the rendered output       *)
(* (ui, lkProps) is kept as state.  Passive effects (useEffect) are        *)
(* separate steps.  React flushes the pending passive effects of a commit, *)
(* children before parents, before it processes the next update, so every  *)
(* event step is guarded by Idle and the effects are ordered               *)
(* SimpleVoiceAssistant < LiveKitRoom < Home.                              *)
(*                                                                         *)
(* The session object (room connection state, agent participant,           *)
(* microphone acquisition) belongs to the imported client library; it is   *)
(* the environment, modelled at the call sites that consume it.            *)
(***************************************************************************)
EXTENDS Naturals, Sequences, FiniteSets

\* ---------------------------------------------------------------- bounds
MaxInFlight == 2      \* credential fetches suspended at once
MaxAlerts == 1        \* media-device failures explored
MaxRejections == 1    \* failed credential fetches counted
MaxCalls == 2         \* state-change callback invocations counted per session state

\* ---------------------------------------------------------------- values
Undefined == "undefined"

ActiveStates == {"initializing", "listening", "thinking", "speaking"}

AgentStates == {"disconnected", "connecting"} \cup ActiveStates

FetchOutcomes == {"details", "other", "reject"}

VARIABLES
  phase,              \* "mounted" | "unmounted": the Home instance
  connectionDetails,  \* useState: <<>> is undefined, <<d>> is the record d
  agentState,         \* useState<AgentState>
  audioContextRef,    \* useRef: "null" | "open" | "closed"
  ui,                 \* ControlBar's committed output
  lkProps,            \* props last passed to LiveKitRoom
  homeEffectPending,  \* Home's mount effect not yet run
  svaEffectPending,   \* SimpleVoiceAssistant's effect not yet run
  roomEffectPending,  \* LiveKitRoom's connect effect not yet run
  connState,          \* room connection state
  agent,              \* agent participant's state attribute, or "none"
  vaState,            \* `state` returned by useVoiceAssistant()
  mic,                \* microphone acquisition of the current session
  inFlight,           \* suspended credential fetches
  log                 \* what the page has shown, logged and counted

vars == <<phase, connectionDetails, agentState, audioContextRef, ui,
          lkProps, homeEffectPending, svaEffectPending, roomEffectPending,
          connState, agent, vaState, mic, inFlight, log>>

sessionVars == <<connState, agent, vaState, mic>>

\* ---------------------------------------------------------------- pure parts

Min(a, b) == IF a < b THEN a ELSE b

\* ControlBar's two conditional blocks.
ControlBarClusterAlways(agentState_) ==
  [start |-> agentState_ = "disconnected",
   cluster |-> agentState_ # "disconnected"]

ControlBar(agentState_) ==
  [start |-> agentState_ = "disconnected",
   cluster |-> agentState_ # "disconnected" /\ agentState_ # "connecting"]

\* The three props Home derives from connectionDetails for LiveKitRoom.
LiveKitRoomPropsAlwaysConnect(cd) ==
  [token |-> IF cd = <<>> THEN Undefined ELSE cd[1].participantToken,
   serverUrl |-> IF cd = <<>> THEN Undefined ELSE cd[1].serverUrl,
   connect |-> TRUE]

LiveKitRoomProps(cd) ==
  [token |-> IF cd = <<>> THEN Undefined ELSE cd[1].participantToken,
   serverUrl |-> IF cd = <<>> THEN Undefined ELSE cd[1].serverUrl,
   connect |-> cd # <<>>]

\* What response.json() yields for a fetch outcome.
ResponseJson(outcome) ==
  IF outcome = "details"
  THEN [participantToken |-> "t1", serverUrl |-> "wss://x"]
  ELSE [participantToken |-> Undefined, serverUrl |-> Undefined]

\* useVoiceAssistant's state, from the room and the agent participant.
VoiceAssistantState(c, a) ==
  IF c = "disconnected" THEN "disconnected"
  ELSE IF c = "connecting" \/ a = "none" THEN "connecting"
  ELSE a

\* createSharedAudioContext: the constructor's outcome, caught and logged.
createSharedAudioContext(outcome) ==
  IF outcome = "ok"
  THEN [ctx |-> "open", logged |-> FALSE, thrown |-> FALSE]
  ELSE [ctx |-> "null", logged |-> TRUE, thrown |-> FALSE]

\* Guard of the creation in Home's mount effect.
ShouldCreate(ref) == ref = "null"

\* Guard of the close in the mount effect's cleanup.
ShouldCloseAlways(ref) == TRUE

ShouldClose(ref) == ref # "null"

\* The value the onDisconnected prop stores in connectionDetails.
OnDisconnectedKeeps(cd) == cd

OnDisconnectedValue(cd) == <<>>

\* The value onDeviceFailure leaves in connectionDetails (it writes nothing).
OnDeviceFailureClears(cd) == <<>>

OnDeviceFailureValue(cd) == cd

\* The argument SimpleVoiceAssistant's effect passes to onStateChange.
StateChangeArgInitial(state) == "disconnected"

StateChangeArg(state) == state

\* Whether the start control's onClick changes agentState (it does not).
ClickAgentStateConnecting(s) == "connecting"

ClickAgentState(s) == s

\* ---------------------------------------------------------------- initial state

NoDisconnect == [cause |-> "none", from |-> "disconnected"]

InitLog ==
  [alerts |-> 0, rejections |-> 0, created |-> 0, closeAttempts |-> 0,
   closedNull |-> FALSE, createFailed |-> FALSE, createLogged |-> FALSE,
   closeFailed |-> FALSE, closeLogged |-> FALSE, crashed |-> FALSE,
   calls |-> 0, applied |-> FALSE, lastDisconnect |-> NoDisconnect,
   lastSettled |-> [outcome |-> "none", stale |-> FALSE]]

Init ==
  /\ phase = "mounted"
  /\ connectionDetails = <<>>
  /\ agentState = "disconnected"
  /\ audioContextRef = "null"
  /\ ui = ControlBar("disconnected")
  /\ lkProps = LiveKitRoomProps(<<>>)
  /\ homeEffectPending = TRUE
  /\ svaEffectPending = TRUE
  /\ roomEffectPending = TRUE
  /\ connState = "disconnected"
  /\ agent = "none"
  /\ vaState = "disconnected"
  /\ mic = "idle"
  /\ inFlight = <<>>
  /\ log = InitLog

Idle == ~svaEffectPending /\ ~roomEffectPending /\ ~homeEffectPending

\* A commit of Home with state (cd, as): children re-render with new props.
CommitHome(cd, as) ==
  /\ connectionDetails' = cd
  /\ agentState' = as
  /\ ui' = ControlBar(as)
  /\ lkProps' = LiveKitRoomProps(cd)
  /\ roomEffectPending' = (roomEffectPending \/ LiveKitRoomProps(cd) # lkProps)

\* The session moves to (c, a): the hook's state follows, and a change of it
\* re-renders SimpleVoiceAssistant.
SetSession(c, a) ==
  /\ connState' = c
  /\ agent' = a
  /\ vaState' = VoiceAssistantState(c, a)

RemoveAt(s, i) == SubSeq(s, 1, i - 1) \o SubSeq(s, i + 1, Len(s))

\* Whether the continuation of fetch f still stores its response: there is no
\* abort signal and no check, so only an unmounted instance drops it.
ResponseAppliedUnlessStale(f, ph) == ph = "mounted" /\ ~f.stale

ResponseApplied(f, ph) == ph = "mounted"

\* ---------------------------------------------------------------- effects

\* SimpleVoiceAssistant's effect: props.onStateChange(state), i.e.
\* setAgentState(state).  A new value re-renders Home, which hands the child a
\* new props object, so the effect is pending again; an equal value bails out.
SVAEffect ==
  /\ phase = "mounted"
  /\ svaEffectPending
  /\ log' = [log EXCEPT !.calls = Min(@ + 1, MaxCalls)]
  /\ LET v == StateChangeArg(vaState) IN
       IF v # agentState
       THEN /\ CommitHome(connectionDetails, v)
            /\ svaEffectPending' = TRUE
       ELSE /\ svaEffectPending' = FALSE
            /\ UNCHANGED <<connectionDetails, agentState, ui, lkProps,
                           roomEffectPending>>
  /\ UNCHANGED <<phase, audioContextRef, homeEffectPending,
                 sessionVars, inFlight>>

\* LiveKitRoom's effect on (connect, token, serverUrl): connect when all three
\* are given, disconnect when connect is false.
RoomEffect ==
  /\ phase = "mounted"
  /\ roomEffectPending
  /\ ~svaEffectPending
  /\ roomEffectPending' = FALSE
  /\ IF /\ lkProps.connect
        /\ lkProps.token # Undefined
        /\ lkProps.serverUrl # Undefined
        /\ connState = "disconnected"
     THEN /\ SetSession("connecting", "none")
          /\ svaEffectPending' = TRUE
          /\ log' = [log EXCEPT !.calls = 0, !.lastDisconnect = NoDisconnect]
          /\ UNCHANGED mic
     ELSE IF ~lkProps.connect /\ connState # "disconnected"
     THEN /\ SetSession("disconnected", "none")
          /\ mic' = "idle"
          /\ svaEffectPending' = TRUE
          /\ log' = [log EXCEPT !.calls = 0]
     ELSE UNCHANGED <<sessionVars, svaEffectPending, log>>
  /\ UNCHANGED <<phase, connectionDetails, agentState, audioContextRef,
                 ui, lkProps, homeEffectPending, inFlight>>

\* Home's mount effect (dependency list []): create the shared AudioContext.
HomeEffect ==
  /\ phase = "mounted"
  /\ homeEffectPending
  /\ ~svaEffectPending
  /\ ~roomEffectPending
  /\ homeEffectPending' = FALSE
  /\ \E outcome \in {"ok", "throw"} :
       IF ShouldCreate(audioContextRef)
       THEN LET r == createSharedAudioContext(outcome) IN
              /\ audioContextRef' = r.ctx
              /\ log' = [log EXCEPT !.created = @ + 1,
                                    !.createFailed = @ \/ outcome # "ok",
                                    !.createLogged = @ \/ r.logged,
                                    !.crashed = @ \/ r.thrown]
       ELSE UNCHANGED <<audioContextRef, log>>
  /\ UNCHANGED <<phase, connectionDetails, agentState, ui, lkProps,
                 svaEffectPending, roomEffectPending, sessionVars, inFlight>>

\* ---------------------------------------------------------------- Home's handlers

\* onConnectButtonClicked up to its first await: the POST is issued.
Click ==
  /\ phase = "mounted"
  /\ Idle
  /\ ui.start
  /\ Len(inFlight) < MaxInFlight
  /\ inFlight' = Append(inFlight, [stale |-> FALSE])
  /\ CommitHome(connectionDetails, ClickAgentState(agentState))
  /\ svaEffectPending' = (ClickAgentState(agentState) # agentState)
  /\ UNCHANGED <<phase, audioContextRef, homeEffectPending,
                 sessionVars, log>>

\* onConnectButtonClicked after its awaits: the i-th suspended fetch settles.
\* "reject" is a network failure or a body that is not JSON; "other" is a JSON
\* body without token and server URL (an error object).
FetchSettles(i, outcome) ==
  /\ i \in 1..Len(inFlight)
  /\ Idle
  /\ inFlight' = RemoveAt(inFlight, i)
  /\ LET f == inFlight[i]
         settled == [outcome |-> outcome, stale |-> f.stale]
     IN IF outcome = "reject"
        THEN /\ log' = [log EXCEPT !.rejections = Min(@ + 1, MaxRejections),
                                   !.lastSettled = settled]
             /\ UNCHANGED <<connectionDetails, agentState, ui, lkProps,
                            roomEffectPending, svaEffectPending>>
        ELSE IF ResponseApplied(f, phase)
        THEN /\ CommitHome(<<ResponseJson(outcome)>>, agentState)
             /\ svaEffectPending' = TRUE
             /\ log' = [log EXCEPT
                          !.applied = @ \/ outcome = "details",
                          !.lastSettled = settled]
        ELSE /\ log' = [log EXCEPT !.lastSettled = settled]
             /\ UNCHANGED <<connectionDetails, agentState, ui, lkProps,
                            roomEffectPending, svaEffectPending>>
  /\ UNCHANGED <<phase, audioContextRef, homeEffectPending,
                 sessionVars>>

FetchCompletes == \E i \in 1..MaxInFlight + 1, outcome \in FetchOutcomes :
                    FetchSettles(i, outcome)

\* The session's disconnected event, raised by the DisconnectButton ("user") or
\* by the transport ("error"); the onDisconnected prop runs with it.
SessionDisconnected(cause) ==
  /\ phase = "mounted"
  /\ Idle
  /\ connState # "disconnected"
  /\ cause = "user" => ui.cluster
  /\ SetSession("disconnected", "none")
  /\ mic' = "idle"
  /\ CommitHome(OnDisconnectedValue(connectionDetails), agentState)
  /\ svaEffectPending' = TRUE
  /\ inFlight' = [k \in 1..Len(inFlight) |-> [inFlight[k] EXCEPT !.stale = TRUE]]
  /\ log' = [log EXCEPT !.calls = 0,
                        !.lastDisconnect = [cause |-> cause, from |-> agentState]]
  /\ UNCHANGED <<phase, audioContextRef, homeEffectPending>>

UserDisconnects == SessionDisconnected("user")

TransportDisconnects == SessionDisconnected("error")

\* onDeviceFailure: console.error and alert; the session goes on.
DeviceFailure ==
  /\ phase = "mounted"
  /\ Idle
  /\ connState = "connected"
  /\ mic = "pending"
  /\ log.alerts < MaxAlerts
  /\ mic' = "denied"
  /\ log' = [log EXCEPT !.alerts = @ + 1]
  /\ LET cd == OnDeviceFailureValue(connectionDetails) IN
       IF cd # connectionDetails
       THEN CommitHome(cd, agentState) /\ svaEffectPending' = TRUE
       ELSE UNCHANGED <<connectionDetails, agentState, ui, lkProps,
                        roomEffectPending, svaEffectPending>>
  /\ UNCHANGED <<phase, audioContextRef, homeEffectPending, connState,
                 agent, vaState, inFlight>>

\* ---------------------------------------------------------------- the session

RoomConnected ==
  /\ phase = "mounted"
  /\ Idle
  /\ connState = "connecting"
  /\ SetSession("connected", "none")
  /\ mic' = "pending"
  /\ UNCHANGED <<phase, connectionDetails, agentState, audioContextRef,
                 ui, lkProps, homeEffectPending, svaEffectPending,
                 roomEffectPending, inFlight, log>>

MicGranted ==
  /\ phase = "mounted"
  /\ Idle
  /\ connState = "connected"
  /\ mic = "pending"
  /\ mic' = "granted"
  /\ UNCHANGED <<phase, connectionDetails, agentState, audioContextRef,
                 ui, lkProps, homeEffectPending, svaEffectPending,
                 roomEffectPending, connState, agent, vaState, inFlight, log>>

\* The agent participant publishes a new state attribute.
AgentReports ==
  /\ phase = "mounted"
  /\ Idle
  /\ connState = "connected"
  /\ \E a \in ActiveStates :
       /\ a # agent
       /\ SetSession("connected", a)
  /\ svaEffectPending' = TRUE
  /\ log' = [log EXCEPT !.calls = 0]
  /\ UNCHANGED <<phase, connectionDetails, agentState, audioContextRef,
                 ui, lkProps, homeEffectPending, roomEffectPending, mic,
                 inFlight>>

\* The agent participant leaves the room.
AgentLeaves ==
  /\ phase = "mounted"
  /\ Idle
  /\ connState = "connected"
  /\ agent # "none"
  /\ SetSession("connected", "none")
  /\ svaEffectPending' = TRUE
  /\ log' = [log EXCEPT !.calls = 0]
  /\ UNCHANGED <<phase, connectionDetails, agentState, audioContextRef,
                 ui, lkProps, homeEffectPending, roomEffectPending, mic,
                 inFlight>>

\* ---------------------------------------------------------------- page lifetime

\* Unmount: the mount effect's cleanup closes the AudioContext; LiveKitRoom
\* leaves the room; the instance's state is gone, nothing is shown, and the
\* continuations of its suspended fetches call the setter of a gone instance,
\* which does nothing.
Unmount ==
  /\ phase = "mounted"
  /\ Idle
  /\ phase' = "unmounted"
  /\ \E outcome \in {"ok", "throw"} :
       IF ShouldClose(audioContextRef)
       THEN /\ audioContextRef' =
                 IF outcome = "ok" /\ audioContextRef # "null"
                 THEN "closed" ELSE audioContextRef
            /\ log' = [log EXCEPT
                         !.closeAttempts = @ + 1,
                         !.closedNull = @ \/ audioContextRef = "null",
                         !.closeFailed = @ \/ outcome # "ok",
                         !.closeLogged = @ \/ outcome # "ok"]
       ELSE UNCHANGED <<audioContextRef, log>>
  /\ SetSession("disconnected", "none")
  /\ mic' = "idle"
  /\ connectionDetails' = <<>>
  /\ agentState' = "disconnected"
  /\ ui' = [start |-> FALSE, cluster |-> FALSE]
  /\ lkProps' = LiveKitRoomProps(<<>>)
  /\ inFlight' = <<>>
  /\ UNCHANGED <<homeEffectPending, svaEffectPending, roomEffectPending>>

\* The page is opened again: a fresh Home instance, first render committed.
Remount ==
  /\ phase = "unmounted"
  /\ phase' = "mounted"
  /\ connectionDetails' = <<>>
  /\ agentState' = "disconnected"
  /\ audioContextRef' = "null"
  /\ ui' = ControlBar("disconnected")
  /\ lkProps' = LiveKitRoomProps(<<>>)
  /\ homeEffectPending' = TRUE
  /\ svaEffectPending' = TRUE
  /\ roomEffectPending' = TRUE
  /\ log' = InitLog
  /\ UNCHANGED <<sessionVars, inFlight>>

Next ==
  \/ SVAEffect
  \/ RoomEffect
  \/ HomeEffect
  \/ Click
  \/ FetchCompletes
  \/ UserDisconnects
  \/ TransportDisconnects
  \/ DeviceFailure
  \/ RoomConnected
  \/ MicGranted
  \/ AgentReports
  \/ AgentLeaves
  \/ Unmount
  \/ Remount

Spec == Init /\ [][Next]_vars

\* React's scheduler runs every pending passive effect.
FairSpec ==
  /\ Spec
  /\ WF_vars(SVAEffect)
  /\ WF_vars(RoomEffect)
  /\ WF_vars(HomeEffect)

TypeOK ==
  /\ phase \in {"mounted", "unmounted"}
  /\ Len(connectionDetails) <= 1
  /\ agentState \in AgentStates
  /\ audioContextRef \in {"null", "open", "closed"}
  /\ connState \in {"disconnected", "connecting", "connected"}
  /\ agent \in ActiveStates \cup {"none"}
  /\ vaState = VoiceAssistantState(connState, agent)
  /\ mic \in {"idle", "pending", "granted", "denied"}
  /\ Len(inFlight) <= MaxInFlight

\* ---------------------------------------------------------------- properties

Mounted == phase = "mounted"

LiveFetchSuspended == inFlight # <<>>

PhaseOf(s) == IF s \in ActiveStates THEN "active" ELSE s

\* C1: while the page is mounted, the start control is shown iff agentState is
\* "disconnected" and the in-session cluster is shown iff agentState is neither
\* "disconnected" nor "connecting"; so they are never shown together and neither
\* is shown while connecting.
C1_ControlVisibility ==
  Mounted =>
    /\ ui.start <=> agentState = "disconnected"
    /\ ui.cluster <=> agentState \notin {"disconnected", "connecting"}
    /\ ~(ui.start /\ ui.cluster)
    /\ agentState = "connecting" => ~ui.start /\ ~ui.cluster

C1_Witness ==
  Mounted /\ agentState = "connecting" /\ ~ui.start /\ ~ui.cluster /\ Idle

\* C2: every disconnected event of the session sets connectionDetails to
\* undefined, and whenever the session is disconnected while agentState is not,
\* agentState eventually becomes "disconnected" with the start control shown
\* (or the page is unmounted).
C2_DisconnectResets ==
  /\ [][(Mounted /\ phase' = "mounted" /\
         connState # "disconnected" /\ connState' = "disconnected")
        => connectionDetails' = <<>>]_vars
  /\ (Mounted /\ connState = "disconnected" /\ agentState # "disconnected")
       ~> (~Mounted \/ (agentState = "disconnected" /\ ui.start))

C2_Witness ==
  /\ Mounted
  /\ log.lastDisconnect = [cause |-> "user", from |-> "listening"]
  /\ connectionDetails = <<>>
  /\ agentState = "disconnected"
  /\ ui.start

\* C3: LiveKitRoom's connect prop is true only if connectionDetails is defined;
\* while it is undefined, connect is false, token and serverUrl are undefined
\* and the room is not connecting or connected.
C3_ConnectOnlyWithDetails ==
  Mounted =>
    /\ lkProps.connect => connectionDetails # <<>>
    /\ connectionDetails = <<>> =>
         /\ ~lkProps.connect
         /\ lkProps.token = Undefined
         /\ lkProps.serverUrl = Undefined
         /\ connState = "disconnected"

C3_Witness ==
  /\ Mounted
  /\ lkProps.connect
  /\ connectionDetails = <<ResponseJson("details")>>
  /\ connState = "connected"

C5_OnlyListedTransitions ==
  [][(Mounted /\ phase' = "mounted" /\ PhaseOf(agentState') # PhaseOf(agentState))
     => \/ agentState = "disconnected" /\ agentState' = "connecting"
        \/ agentState = "connecting" /\ agentState' \in ActiveStates
        \/ agentState \in ActiveStates /\ agentState' = "disconnected"]_vars

\* C5 amended: agentState changes only to the session's current state, along
\* disconnected -> connecting (only with connection details stored),
\* connecting -> active, active -> active, active -> connecting (the agent
\* left), and connecting or active -> disconnected (only after the
\* disconnected event has cleared connectionDetails).
C5_SessionDrivenTransitions ==
  [][(Mounted /\ phase' = "mounted" /\ agentState' # agentState)
     => /\ agentState' = vaState
        /\ \/ /\ agentState = "disconnected"
              /\ agentState' = "connecting"
              /\ connectionDetails # <<>>
              /\ log.applied
           \/ agentState = "connecting" /\ agentState' \in ActiveStates
           \/ agentState \in ActiveStates /\ agentState' \in ActiveStates
           \/ agentState \in ActiveStates /\ agentState' = "connecting"
           \/ /\ agentState # "disconnected"
              /\ agentState' = "disconnected"
              /\ connectionDetails = <<>>
              /\ log.lastDisconnect.cause # "none"]_vars

C5_Witness ==
  /\ Mounted
  /\ log.lastDisconnect = [cause |-> "error", from |-> "connecting"]
  /\ agentState = "disconnected"
  /\ Idle

\* C6 as stated: after a media-device failure agentState is "disconnected" and
\* the in-session cluster is not shown.
C6_StaysDisconnected ==
  mic = "denied" => agentState = "disconnected" /\ ~ui.cluster

\* C6 amended: the media-device-failure callback shows an alert and changes
\* neither connectionDetails nor agentState nor what is rendered; the session
\* it belongs to stays asked for and connected.
C6_AlertOnly ==
  /\ [](mic = "denied" =>
          /\ log.alerts >= 1
          /\ connectionDetails # <<>>
          /\ lkProps.connect
          /\ connState = "connected"
          /\ agentState # "disconnected" \/ svaEffectPending)
  /\ [][(mic' = "denied" /\ mic # "denied")
        => /\ log'.alerts = log.alerts + 1
           /\ connectionDetails' = connectionDetails
           /\ agentState' = agentState
           /\ ui' = ui
           /\ lkProps' = lkProps
           /\ connState' = connState]_vars

C6_Witness ==
  /\ Mounted
  /\ mic = "denied"
  /\ log.alerts >= 1
  /\ agentState = "listening"
  /\ ui.cluster

\* C7: once a credential fetch has failed, an error has been shown to the user
\* and, when nothing is pending, one of the two controls is shown.
C7_ErrorSurfaced ==
  (Mounted /\ log.lastSettled.outcome = "reject")
    => /\ log.alerts > 0
       /\ Idle => ui.start \/ ui.cluster \/ LiveFetchSuspended

\* C8: a settled fetch of the mounted instance that yields a JSON body stores
\* it in connectionDetails whether or not a disconnect happened while it was
\* suspended; connect becomes true, and credentials arriving while the room is
\* disconnected make LiveKitRoom's effect connect again.
C8_StaleResponseApplied ==
  [][(Mounted /\ phase' = "mounted" /\ Len(inFlight') < Len(inFlight) /\
      log'.lastSettled.outcome # "reject")
     => /\ connectionDetails' = <<ResponseJson(log'.lastSettled.outcome)>>
        /\ lkProps'.connect
        /\ (log'.lastSettled.outcome = "details" /\ connState = "disconnected")
             => roomEffectPending']_vars

C8_Witness ==
  /\ Mounted
  /\ log.lastSettled = [outcome |-> "details", stale |-> TRUE]
  /\ connectionDetails # <<>>
  /\ connState = "connecting"

C10_ExactlyOncePerChange ==
  Mounted => log.calls <= 1

\* C10 amended: the callback runs at least once on mount and after every change
\* of the session's state (and again, with the same value, after every
\* re-render of Home); once no call is pending agentState equals the
\* session's state; agentState is written only by that callback.
C10_StatePropagated ==
  /\ []((Mounted /\ ~svaEffectPending) =>
          agentState = vaState /\ log.calls >= 1)
  /\ [][(Mounted /\ phase' = "mounted" /\ agentState' # agentState)
        => /\ svaEffectPending
           /\ agentState' = vaState
           /\ log'.calls >= 1]_vars

C10_Witness ==
  /\ Mounted
  /\ Idle
  /\ agentState = "speaking"
  /\ vaState = "speaking"
  /\ log.calls = 2

====
